---- MODULE Spec2Model ----
(***************************************************************************)
(* Radial heat diffusion around a buried power cable (cable_sim.py).       *)
(*                                                                         *)
(* The script is one sequential computation; pc is its position.  Python   *)
(* floats are modelled in fixed point, every quantity an integer count of  *)
(* a unit:                                                                 *)
(*     temperature        0.01 K          (230 K     -> 23000)             *)
(*     energy             0.001 J         (1 J       -> 1000)              *)
(*     mass               1 g                                              *)
(*     specific heat      0.1 J/(g K)     (0.903     -> 9, 1.512 -> 15)    *)
(*     density            0.1 g/cm3       (1.8       -> 18, 2.7  -> 27)    *)
(*     conductivity       0.01 W/(.. K)   (0.85      -> 85)                *)
(*     area               0.001 m2                                         *)
(*     pi                 0.001           (3.14159.. -> 3142)              *)
(* and "/" is floor division.  A division by zero and an index outside a   *)
(* list raise, as in Python, and end the run in pc = "error".              *)
(*                                                                         *)
(* The literals 300 / 299 (shell loops), 36000 (sim_duration) and 2880     *)
(* (drawing period) are scaled down to NShells, sim_duration and           *)
(* SnapInterval.  The constants of the "Initial Conditions" block that the *)
(* properties quantify over are variables, drawn in Init from the          *)
(* reference value and a few other values.                                 *)
(***************************************************************************)
EXTENDS Integers, Sequences, FiniteSets

\* ---- bounds (scaled-down program literals) ----
\* the literal 300 of the shell loops (299 is NShells - 1)
NShells == 4
\* sim_duration = 36000
sim_duration == 12
\* the literal 2880 of the drawing period
SnapInterval == 3

\* ---- fixed constants of the "Initial Conditions" block ----
time_step == 900
reg_spec_heat == 15
al_spec_heat == 9
cable_length == 100
cable_diameter == 2
ambient_temperature == 23000
PI == 3142

VARIABLES
  pc,                  \* "init","loop","sweep","inject","snap","done","error"
  err,                 \* the exception that ended the run, or "none"
  n_shells,            \* configuration, fixed during a run
  regolith_density,
  aluminum_density,
  reg_thermal_conduct,
  heat_dissipation,
  min_temp_delta,
  shell_temps,         \* the four module-level lists, indexed 0..n_shells-1
  shell_energy,
  shell_areas,
  shell_masses,
  step,                \* loop variable of the simulation loop
  s,                   \* loop variable of the heat propagation loop
  snapshots,           \* calls of draw so far: what each call read
  e0, t0,              \* history: shell_energy / shell_temps at the start of the step
  trace,               \* history: pairs processed in the current sweep
  brk,                 \* history: pair at which the current sweep broke, or -1
  brk_diff,            \* history: temp_diff that caused the break
  swept,               \* history: sweeps ended so far
  injected             \* history: heat injections so far

vars == <<pc, err, n_shells, regolith_density, aluminum_density,
          reg_thermal_conduct, heat_dissipation, min_temp_delta,
          shell_temps, shell_energy, shell_areas, shell_masses,
          step, s, snapshots, e0, t0, trace, brk, brk_diff, swept, injected>>

config == <<n_shells, regolith_density, aluminum_density,
            reg_thermal_conduct, heat_dissipation, min_temp_delta>>

history == <<e0, t0, trace, brk, brk_diff>>

\* ---- arithmetic ----

Shells == 0 .. (n_shells - 1)

Min(a, b) == IF a < b THEN a ELSE b

RECURSIVE SumTo(_, _)
SumTo(f, n) == IF n < 0 THEN 0 ELSE f[n] + SumTo(f, n - 1)

\* sum over all shells of the energy gained since the start of the step
\* (the difference of the two sums, taken shell by shell)
EnergyGained ==
  SumTo([k \in Shells |-> shell_energy[k] - e0[k]], n_shells - 1)

\* cable_mass = pi * (d/2)**2 * length * density, in grams
cable_mass ==
  (PI * ((cable_diameter * cable_diameter) \div 4) * cable_length
      * aluminum_density) \div 10000

\* x / 10000 "Convert to square meters", result in 0.001 m2
ToSquareMeters(cm2) == (cm2 * 1000) \div 10000

\* cable_area = cable_diameter * pi * 100; cable_area /= 10000
cable_area == ToSquareMeters((cable_diameter * PI * 100) \div 1000)

\* shell_area = pi * 2 * r * 100, in cm2
ShellArea(r) == (PI * 2 * r * 100) \div 1000

\* shell_mass = shell_volume * regolith_density, shell_volume = shell_area
ShellMass(r) == (ShellArea(r) * regolith_density) \div 10

\* joules_per_gram = energy / mass ; kelvins = joules_per_gram / spec_heat
Kelvins(energy, mass, spec_heat) == (energy \div mass) \div spec_heat

\* heat_loss = reg_thermal_conduct * temp_diff; *= shell_areas[s]; *= time_step
HeatLoss(temp_diff, area) ==
  (((reg_thermal_conduct * temp_diff * area) \div 100) * time_step) \div 100

\* heat_dissipation * time_step, in 0.001 J
InjectedJoules == heat_dissipation * time_step * 1000

\* ---- the operators the steps are built from ----

\* variant: the difference the shells had at the start of the step (Jacobi)
TempDiffJacobi(temps, start_temps, k) == start_temps[k] - start_temps[k + 1]

\* temp_diff = shell_temps[s] - shell_temps[s+1]   (current values)
TempDiff(temps, start_temps, k) == temps[k] - temps[k + 1]

\* variant: a small difference does not end the sweep
StopsSweepNever(temp_diff) == FALSE

\* if temp_diff < min_temp_delta : break
StopsSweep(temp_diff) == temp_diff < min_temp_delta

\* variant: the energy taken from shell k is not given to shell k+1
TransferLossy(en, k, heat_loss) == [en EXCEPT ![k] = @ - heat_loss]

\* variant: the energy moves from shell k+1 to shell k
TransferInward(en, k, heat_loss) ==
  [en EXCEPT ![k] = @ + heat_loss, ![k + 1] = @ - heat_loss]

\* shell_energy[s] -= heat_loss ; shell_energy[s+1] += heat_loss
Transfer(en, k, heat_loss) ==
  [en EXCEPT ![k] = @ - heat_loss, ![k + 1] = @ + heat_loss]

\* "Calc new temps for these two shells": both with reg_spec_heat
PairKelvins(en, k) == Kelvins(en[k], shell_masses[k], reg_spec_heat)

\* variant: the cable's temperature computed with the regolith's constant
CableKelvinsRegolith(en) == Kelvins(en[0], shell_masses[0], reg_spec_heat)

\* temperature of the cable after the injection: with al_spec_heat
CableKelvins(en) == Kelvins(en[0], shell_masses[0], al_spec_heat)

\* variant: range(0, sim_duration)
LoopStopsBeforeLast(i) == i < sim_duration

\* for step in range(0, sim_duration+1)
LoopContinues(i) == i <= sim_duration

\* variant: a drawing at every step after the first
DrawDueEveryStep(i) == i > 0

\* if step > 0 and 0 == (step % 2880)
DrawDue(i) == i > 0 /\ i % SnapInterval = 0

\* shells the pre-calc loop fills before it ends or raises
FilledShells == 1 .. (Min(n_shells, NShells) - 1)

\* ---- initial state: the lists as lines 167-170 build them ----

Init ==
  /\ pc = "init"
  /\ err = "none"
  /\ n_shells \in {0, 1, NShells}
  /\ regolith_density \in {18, 0}
  /\ aluminum_density \in {27, 0}
  /\ reg_thermal_conduct \in {85, 2550}
  /\ heat_dissipation \in {1, 3}
  /\ min_temp_delta \in {10, 0}
  /\ shell_temps = [k \in Shells |-> ambient_temperature]
  /\ shell_energy = [k \in Shells |-> 0]
  /\ shell_areas = [k \in Shells |-> 0]
  /\ shell_masses = [k \in Shells |-> 0]
  /\ step = 0
  /\ s = 0
  /\ snapshots = <<>>
  /\ e0 = shell_energy
  /\ t0 = shell_temps
  /\ trace = <<>>
  /\ brk = -1
  /\ brk_diff = 0
  /\ swept = 0
  /\ injected = 0

\* ---- lines 177-186: masses, areas and energies of all shells ----

FillShells ==
  /\ shell_masses' = [k \in Shells |->
        IF k = 0 THEN cable_mass
        ELSE IF k \in FilledShells THEN ShellMass(k) ELSE 0]
  /\ shell_areas' = [k \in Shells |->
        IF k = 0 THEN cable_area
        ELSE IF k \in FilledShells THEN ToSquareMeters(ShellArea(k)) ELSE 0]
  /\ shell_energy' = [k \in Shells |->
        IF k = 0 THEN cable_mass * ambient_temperature * al_spec_heat
        ELSE IF k \in FilledShells
             THEN ShellMass(k) * ambient_temperature * reg_spec_heat ELSE 0]

InitShells ==
  /\ pc = "init"
  /\ n_shells >= NShells
  /\ FillShells
  /\ pc' = "loop"
  /\ UNCHANGED <<err, config, shell_temps, step, s, snapshots, history,
                 swept, injected>>

\* shell_masses[0] (no shell at all) or shell_areas[r] with r = n_shells
\* raises IndexError; the shells before r stay filled
InitFail ==
  /\ pc = "init"
  /\ n_shells < NShells
  /\ IF n_shells = 0
     THEN UNCHANGED <<shell_masses, shell_areas, shell_energy>>
     ELSE FillShells
  /\ pc' = "error"
  /\ err' = "IndexError"
  /\ UNCHANGED <<config, shell_temps, step, s, snapshots, history,
                 swept, injected>>

\* ---- line 194: head of the simulation loop ----

BeginStep ==
  /\ pc = "loop"
  /\ LoopContinues(step)
  /\ pc' = "sweep"
  /\ s' = 0
  /\ e0' = shell_energy
  /\ t0' = shell_temps
  /\ trace' = <<>>
  /\ brk' = -1
  /\ brk_diff' = 0
  /\ UNCHANGED <<err, config, shell_temps, shell_energy, shell_areas,
                 shell_masses, step, snapshots, swept, injected>>

Finish ==
  /\ pc = "loop"
  /\ ~LoopContinues(step)
  /\ pc' = "done"
  /\ UNCHANGED <<err, config, shell_temps, shell_energy, shell_areas,
                 shell_masses, step, s, snapshots, history, swept, injected>>

\* ---- lines 197-234: one iteration of the heat propagation loop ----

\* range(0, 299) is exhausted
SweepEnd ==
  /\ pc = "sweep"
  /\ s >= NShells - 1
  /\ pc' = "inject"
  /\ swept' = swept + 1
  /\ UNCHANGED <<err, config, shell_temps, shell_energy, shell_areas,
                 shell_masses, step, s, snapshots, history, injected>>

SweepBreak ==
  /\ pc = "sweep"
  /\ s < NShells - 1
  /\ StopsSweep(TempDiff(shell_temps, t0, s))
  /\ pc' = "inject"
  /\ brk' = s
  /\ brk_diff' = TempDiff(shell_temps, t0, s)
  /\ swept' = swept + 1
  /\ UNCHANGED <<err, config, shell_temps, shell_energy, shell_areas,
                 shell_masses, step, s, snapshots, e0, t0, trace, injected>>

SweepTransfer ==
  /\ pc = "sweep"
  /\ s < NShells - 1
  /\ LET temp_diff == TempDiff(shell_temps, t0, s)
         heat_loss == HeatLoss(temp_diff, shell_areas[s])
         en        == Transfer(shell_energy, s, heat_loss)
     IN /\ ~StopsSweep(temp_diff)
        /\ shell_masses[s] # 0
        /\ shell_masses[s + 1] # 0
        /\ shell_energy' = en
        /\ shell_temps' = [shell_temps EXCEPT ![s] = PairKelvins(en, s),
                                              ![s + 1] = PairKelvins(en, s + 1)]
        /\ trace' = Append(trace, [s |-> s, diff |-> temp_diff,
                                   hl |-> heat_loss])
  /\ s' = s + 1
  /\ UNCHANGED <<pc, err, config, shell_areas, shell_masses, step, snapshots,
                 e0, t0, brk, brk_diff, swept, injected>>

\* shell_energy[..] / shell_masses[..] raises ZeroDivisionError after the
\* energies were moved; shell s keeps its new temperature if only the
\* second division raises
SweepFail ==
  /\ pc = "sweep"
  /\ s < NShells - 1
  /\ LET temp_diff == TempDiff(shell_temps, t0, s)
         heat_loss == HeatLoss(temp_diff, shell_areas[s])
         en        == Transfer(shell_energy, s, heat_loss)
     IN /\ ~StopsSweep(temp_diff)
        /\ shell_masses[s] = 0 \/ shell_masses[s + 1] = 0
        /\ shell_energy' = en
        /\ shell_temps' = IF shell_masses[s] = 0 THEN shell_temps
                          ELSE [shell_temps EXCEPT ![s] = PairKelvins(en, s)]
        /\ trace' = Append(trace, [s |-> s, diff |-> temp_diff,
                                   hl |-> heat_loss])
  /\ pc' = "error"
  /\ err' = "ZeroDivisionError"
  /\ UNCHANGED <<config, shell_areas, shell_masses, step, s, snapshots,
                 e0, t0, brk, brk_diff, swept, injected>>

\* ---- lines 242-245: add new energy to the cable ----

Inject ==
  /\ pc = "inject"
  /\ shell_masses[0] # 0
  /\ LET en == [shell_energy EXCEPT ![0] = @ + InjectedJoules]
     IN /\ shell_energy' = en
        /\ shell_temps' = [shell_temps EXCEPT ![0] = CableKelvins(en)]
  /\ injected' = injected + 1
  /\ pc' = "snap"
  /\ UNCHANGED <<err, config, shell_areas, shell_masses, step, s, snapshots,
                 history, swept>>

InjectFail ==
  /\ pc = "inject"
  /\ shell_masses[0] = 0
  /\ shell_energy' = [shell_energy EXCEPT ![0] = @ + InjectedJoules]
  /\ injected' = injected + 1
  /\ pc' = "error"
  /\ err' = "ZeroDivisionError"
  /\ UNCHANGED <<config, shell_temps, shell_areas, shell_masses, step, s,
                 snapshots, history, swept>>

\* ---- lines 252-253 and 21-119: the drawing, then the next step ----

\* draw reads shell_temps[299] .. shell_temps[0] and writes an image file
Draw ==
  /\ pc = "snap"
  /\ DrawDue(step)
  /\ snapshots' = Append(snapshots,
        [step |-> step,
         temps |-> [k \in 0 .. (NShells - 1) |-> shell_temps[k]],
         swept |-> swept, injected |-> injected])
  /\ step' = step + 1
  /\ pc' = "loop"
  /\ UNCHANGED <<err, config, shell_temps, shell_energy, shell_areas,
                 shell_masses, s, history, swept, injected>>

NoDraw ==
  /\ pc = "snap"
  /\ ~DrawDue(step)
  /\ step' = step + 1
  /\ pc' = "loop"
  /\ UNCHANGED <<err, config, shell_temps, shell_energy, shell_areas,
                 shell_masses, s, snapshots, history, swept, injected>>

Next ==
  \/ InitShells
  \/ InitFail
  \/ BeginStep
  \/ Finish
  \/ SweepEnd
  \/ SweepBreak
  \/ SweepTransfer
  \/ SweepFail
  \/ Inject
  \/ InjectFail
  \/ Draw
  \/ NoDraw

Spec == Init /\ [][Next]_vars

\* the script runs to its end or to an exception: no step waits
FairSpec == Spec /\ WF_vars(Next)

\* ---- vocabulary of the properties ----

\* every shell the loops touch exists and every constant is positive
Positive == n_shells >= NShells /\ regolith_density > 0 /\ aluminum_density > 0

\* the constants as the script sets them
Reference ==
  /\ Positive
  /\ reg_thermal_conduct = 85
  /\ heat_dissipation = 1
  /\ min_temp_delta = 10

\* conductor's constant for shell 0, the medium's for every other shell
SpecificHeat(k) == IF k = 0 THEN al_spec_heat ELSE reg_spec_heat

\* energy / (mass * specificHeat)
Converted(k) == shell_energy[k] \div (shell_masses[k] * SpecificHeat(k))

\* initial state, end of a step, moment of a snapshot, end of the run
AtObservation == pc \in {"loop", "snap", "done"}

\* ---- C1 ----
\* C1: the sweep keeps the sum of energy over all shells at its value from
\* the start of the step, however many pairs it processed before it stopped,
\* and after the injection the sum is that value plus
\* heat_dissipation * time_step.
C1_EnergyBalance ==
  /\ pc \in {"sweep", "inject"} => EnergyGained = 0
  /\ pc = "snap" => EnergyGained = InjectedJoules

\* a step that moved energy between shells, broke early and injected
C1_Witness ==
  /\ pc = "snap"
  /\ Len(trace) >= 1
  /\ brk >= 1
  /\ shell_energy[1] # e0[1]

\* ---- C2 ----
\* C2: at every observation point (initial state, end of every step, every
\* snapshot) each shell's temperature is its energy divided by mass times
\* specific heat, the conductor's constant for shell 0 and the medium's for
\* the others.
C2_TempFromEnergy ==
  (Positive /\ AtObservation) =>
     \A k \in Shells : shell_temps[k] = Converted(k)

\* end of a step whose sweep processed the pair (0, 1) and a further pair
C2_Witness ==
  /\ Positive
  /\ pc = "snap"
  /\ Len(trace) >= 2
  /\ shell_temps[0] # t0[0]
  /\ shell_temps[2] # ambient_temperature

\* ---- C3 ----
\* C3: every pair the sweep processes had a temperature difference at or
\* above min_temp_delta; when the difference at pair (k, k+1) is below it the
\* sweep ends there: the pairs processed are exactly 0 .. k-1 and shells
\* k+1 .. N-1 keep the energy and temperature they had at the start of the
\* step.
C3_EarlyExit ==
  /\ \A i \in 1 .. Len(trace) :
        trace[i].s = i - 1 /\ trace[i].diff >= min_temp_delta
  /\ (brk # -1 /\ pc \in {"inject", "snap"}) =>
        /\ brk_diff < min_temp_delta
        /\ Len(trace) = brk
        /\ \A j \in (brk + 1) .. (n_shells - 1) :
              shell_energy[j] = e0[j] /\ shell_temps[j] = t0[j]

\* the sweep broke at pair (k, k+1) although the next pair out had a
\* difference at or above a positive threshold
C3_Witness ==
  /\ pc = "inject"
  /\ brk # -1
  /\ brk + 2 <= n_shells - 1
  /\ min_temp_delta > 0
  /\ shell_temps[brk + 1] - shell_temps[brk + 2] >= min_temp_delta

\* ---- C8 ----
\* C8: pairs are processed in increasing order 0, 1, 2, ..., and the
\* difference used for pair (k, k+1), k >= 1, is taken from the temperature
\* of shell k as recomputed after pair (k-1, k) gave it energy in this sweep.
C8_GaussSeidel ==
  Positive =>
    \A i \in 1 .. Len(trace) :
      /\ trace[i].s = i - 1
      /\ i >= 2 =>
           trace[i].diff =
             Kelvins(e0[i - 1] + trace[i - 1].hl, shell_masses[i - 1],
                     reg_spec_heat) - t0[i]

\* a pair processed because of the energy the previous pair brought in this
\* sweep: at the start of the step its difference was below the threshold
C8_Witness ==
  /\ Positive
  /\ \E i \in 2 .. Len(trace) :
        /\ t0[i - 1] - t0[i] < min_temp_delta
        /\ trace[i].diff >= min_temp_delta

\* ---- C10 ----
\* C10: with the reference constants the temperature never increases with
\* the radius at the end of a step, and every transfer of the sweep moves a
\* strictly positive amount of energy outward.
C10_Monotone ==
  Reference =>
    /\ AtObservation =>
         \A k \in 0 .. (n_shells - 2) : shell_temps[k] >= shell_temps[k + 1]
    /\ \A i \in 1 .. Len(trace) : trace[i].hl > 0

\* end of a step at which heat has reached the third shell
C10_Witness ==
  /\ Reference
  /\ pc = "snap"
  /\ Len(trace) >= 2
  /\ shell_temps[1] > shell_temps[2]
  /\ shell_temps[2] > shell_temps[3]

PcOrder ==
  {<<"init", "loop">>, <<"loop", "sweep">>, <<"sweep", "inject">>,
   <<"inject", "snap">>, <<"snap", "loop">>, <<"loop", "done">>,
   <<"init", "error">>, <<"sweep", "error">>, <<"inject", "error">>}

C5_Snapshots ==
  /\ [](/\ Len(snapshots) =
             (IF step = 0 THEN 0 ELSE (step - 1) \div SnapInterval)
        /\ \A i \in 1 .. Len(snapshots) :
             /\ snapshots[i].step = i * SnapInterval
             /\ snapshots[i].swept = snapshots[i].step + 1
             /\ snapshots[i].injected = snapshots[i].step + 1)
  /\ [][snapshots' # snapshots =>
          /\ pc = "snap"
          /\ Len(snapshots') = Len(snapshots) + 1
          /\ \A i \in 1 .. Len(snapshots) : snapshots'[i] = snapshots[i]
          /\ \A k \in 0 .. (NShells - 1) :
                snapshots'[Len(snapshots')].temps[k] = shell_temps[k]
          /\ shell_energy' = shell_energy
          /\ shell_temps' = shell_temps]_vars

\* two drawings made, the second of a warmer cable than the first
C5_Witness ==
  /\ Len(snapshots) >= 2
  /\ snapshots[2].temps[0] > snapshots[1].temps[0]
  /\ snapshots[1].temps[0] > ambient_temperature

\* ---- C6 ----
\* C6: with a single shell the program runs without error.
C6_SingleShellRuns == n_shells = 1 => pc # "error"

\* ---- C7 ----
\* C7: with a non-positive density or shell count no step is executed and
\* no snapshot is emitted.
C7_NeverStarts ==
  (regolith_density <= 0 \/ aluminum_density <= 0 \/ n_shells <= 0) =>
     (swept = 0 /\ injected = 0 /\ snapshots = <<>>)

\* ---- C9 ----
\* C9: right after the transfer for a pair (k, k+1), the pair (0, 1)
\* included, both shells' temperatures are their energy divided by mass
\* times their own specific heat.
C9_PairTempsFromEnergy ==
  (Positive /\ pc = "sweep" /\ trace # <<>>) =>
     LET k == trace[Len(trace)].s
     IN shell_temps[k] = Converted(k) /\ shell_temps[k + 1] = Converted(k + 1)

====
